---- MODULE Spec2Model ----
(***************************************************************************)
(* A model of r9cc's IR generation pass (src/ir.rs): the lowering of a     *)
(* syntax tree into per-function lists of IR instructions over virtual     *)
(* registers (gen_ir, gen_args, gen_stmt, gen_expr, gen_lval) and the      *)
(* textual rendering of instructions (Display for IR, dump_ir).            *)
(*                                                                         *)
(* The recursion of gen_stmt / gen_expr is modelled with an explicit call  *)
(* stack: a frame per active call, holding the node being lowered, the     *)
(* position inside the function body and its local variables.  One action  *)
(* is one straight-line segment of a function between two recursive calls. *)
(***************************************************************************)
EXTENDS Integers, Sequences, FiniteSets, TLC

VARIABLES
    input,      \* gen_ir's argument `nodes`: the top-level nodes
    idx,        \* position of gen_ir's `for node in nodes` loop (1-based)
    pc,         \* position inside gen_ir / dump_ir, or "done" / "panic"
    v,          \* gen_ir's local `v`: the Function records built so far
    result,     \* gen_ir's return value: <<>> until it returns, then <<v>>
    code,       \* gen_ir's local `code` of the function being lowered
    VARS,       \* static VARS: name -> frame offset
    REGNO,      \* static REGNO
    STACKSIZE,  \* static STACKSIZE
    LABEL,      \* static LABEL
    stack,      \* active calls of gen_args / gen_stmt / gen_expr
    ret,        \* value returned by the gen_expr call that returned last
    out,        \* standard output written by dump_ir, one entry per print!
    dpos        \* dump_ir's position in the instruction list of a function

vars == <<input, idx, pc, v, result, code, VARS, REGNO, STACKSIZE, LABEL,
          stack, ret, out, dpos>>

(***************************************************************************)
(* Bounds of the model.                                                    *)
(***************************************************************************)
MaxParams == 2      \* longest parameter list that is enumerated
MaxStmts == 2       \* longest enumerated block
MaxFuncs == 2       \* most function definitions in one enumerated program
MaxCallArgs == 2    \* most arguments of an enumerated call
MaxOperand == 1     \* largest small operand value of a rendered instruction
MaxLit == 1         \* largest enumerated numeric literal

(***************************************************************************)
(* Program constants.                                                      *)
(***************************************************************************)
None == -1          \* Option::None of IR.lhs / IR.rhs
ArgCap == 6         \* capacity of the argument array of IROp::Call
SlotSize == 8       \* bytes by which STACKSIZE grows per variable
InitRegno == 1      \* REGNO at the start of every function
InitLabel == 0      \* LABEL at program start

(***************************************************************************)
(* Syntax tree nodes (parse::Node), as the pass destructures them.         *)
(***************************************************************************)
Num(val) == [ty |-> "Num", val |-> val]
Ident(name) == [ty |-> "Ident", name |-> name]
Call(name, args) == [ty |-> "Call", name |-> name, args |-> args]
BinOp(op, lhs, rhs) == [ty |-> "BinOp", op |-> op, lhs |-> lhs, rhs |-> rhs]
\* els_may is an Option<Box<Node>>: <<>> is None, <<n>> is Some(n)
If(cond, then, els_may) ==
    [ty |-> "If", cond |-> cond, then |-> then, els_may |-> els_may]
Return(expr) == [ty |-> "Return", expr |-> expr]
ExprStmt(expr) == [ty |-> "ExprStmt", expr |-> expr]
CompStmt(stmts) == [ty |-> "CompStmt", stmts |-> stmts]
Func(name, args, body) ==
    [ty |-> "Func", name |-> name, args |-> args, body |-> body]

(***************************************************************************)
(* Instructions.                                                           *)
(***************************************************************************)
ZeroArgs == [i \in 1..ArgCap |-> 0]

\* an IROp without payload
Op(tag) == [tag |-> tag, name |-> "", nargs |-> 0, args |-> ZeroArgs]
\* IROp::Call(name, nargs, args)
CallOp(name, nargs, args) ==
    [tag |-> "Call", name |-> name, nargs |-> nargs, args |-> args]

IR(op, lhs, rhs) == [op |-> op, lhs |-> lhs, rhs |-> rhs]

Function(name, ir, stacksize) ==
    [name |-> name, ir |-> ir, stacksize |-> stacksize]

IRInfo(op, name, ty) == [op |-> op, name |-> name, ty |-> ty]

IRINFO ==
    << IRInfo(Op("Add"), "ADD", "RegReg"),
       IRInfo(Op("Sub"), "SUB", "RegReg"),
       IRInfo(Op("Mul"), "MUL", "RegReg"),
       IRInfo(Op("Div"), "DIV", "RegReg"),
       IRInfo(Op("Imm"), "MOV", "RegImm"),
       IRInfo(Op("SubImm"), "SUB", "RegImm"),
       IRInfo(Op("Mov"), "MOV", "RegReg"),
       IRInfo(Op("Label"), "", "Label"),
       IRInfo(Op("Jmp"), "", "Label"),
       IRInfo(Op("Unless"), "UNLESS", "RegLabel"),
       IRInfo(CallOp("", 0, ZeroArgs), "CALL", "Call"),
       IRInfo(Op("Return"), "RET", "Reg"),
       IRInfo(Op("Load"), "LOAD", "RegReg"),
       IRInfo(Op("Store"), "STORE", "RegReg"),
       IRInfo(Op("Kill"), "KILL", "Reg"),
       IRInfo(Op("SaveArgs"), "SAVE_ARGS", "Imm"),
       IRInfo(Op("Nop"), "NOP", "Noarg") >>

\* the first table entry whose op equals ir.op; a Call is answered at once
get_irinfo(ir) ==
    IF ir.op.tag = "Call"
    THEN IRInfo(ir.op, "CALL", "Call")
    ELSE LET hits == {k \in 1..Len(IRINFO) : IRINFO[k].op = ir.op}
             first == CHOOSE k \in hits : \A j \in hits : k <= j
         IN IRINFO[first]

\* impl From<TokenType> for IROp; any other token panics
ArithTokens == {"Plus", "Minus", "Mul", "Div"}
OpFromToken(tok) ==
    CASE tok = "Plus" -> Op("Add")
      [] tok = "Minus" -> Op("Sub")
      [] tok = "Mul" -> Op("Mul")
      [] tok = "Div" -> Op("Div")

(***************************************************************************)
(* The call stack.                                                         *)
(***************************************************************************)
\* a fresh activation of fn on node, with its locals not yet assigned
Frame(fn, node) ==
    [fn |-> fn, at |-> "start", node |-> node, i |-> 0,
     r |-> None, x |-> None, y |-> None, args_ir |-> ZeroArgs]

Top == stack[Len(stack)]
Pop == SubSeq(stack, 1, Len(stack) - 1)
SetTop(f) == [stack EXCEPT ![Len(stack)] = f]
Enter(f, callee) == Append(SetTop(f), callee)

At(fn, at) == /\ pc \in {"args", "body"}
              /\ stack # <<>>
              /\ Top.fn = fn
              /\ Top.at = at

(***************************************************************************)
(* Counters and the symbol table.                                          *)
(***************************************************************************)
EmptyVars == [n \in {} |-> 0]

\* a REGNO that is read but not advanced
NextRegnoStuck(r) == r
\* *REGNO.lock().unwrap() += 1
NextRegno(r) == r + 1
\* a LABEL that is read but not advanced
NextLabelStuck(l) == l
\* *LABEL.lock().unwrap() += 1
NextLabel(l) == l + 1

\* gen_lval: an unseen name gets the current stack size, which then grows
LvalVars(name) ==
    IF name \in DOMAIN VARS
    THEN VARS
    ELSE [n \in DOMAIN VARS \cup {name} |->
            IF n = name THEN STACKSIZE ELSE VARS[n]]
\* a stack that grows at every reference, seen or unseen
LvalStacksizeAlways(name) == STACKSIZE + SlotSize
LvalStacksize(name) ==
    IF name \in DOMAIN VARS THEN STACKSIZE ELSE STACKSIZE + SlotSize
\* gen_lval: the two instructions that put the address of name into r
LvalCode(name, r) ==
    << IR(Op("Mov"), r, 0), IR(Op("SubImm"), r, LvalVars(name)[name]) >>

\* gen_args: the stack grows first, the name is then inserted (or overwritten)
ArgsStacksize == STACKSIZE + SlotSize
ArgsVars(name) ==
    [n \in DOMAIN VARS \cup {name} |->
        IF n = name THEN ArgsStacksize ELSE VARS[n]]

\* a Kill for every slot of the argument array, used or not
CallKillsWholeArray(args_ir, nargs) ==
    [k \in 1..ArgCap |-> IR(Op("Kill"), args_ir[k], None)]
\* gen_expr, Call: one Kill per argument register, in argument order
CallKills(args_ir, nargs) ==
    [k \in 1..nargs |-> IR(Op("Kill"), args_ir[k], None)]

\* an assignment that returns the register of the stored value
AssignResultValue(lhs, rhs) == rhs
\* gen_expr, assignment: the register the expression returns
AssignResult(lhs, rhs) == lhs

\* the two labels taken for each other
IfElseMiddleSwapped(x, y) ==
    << IR(Op("Jmp"), x, None), IR(Op("Label"), y, None) >>
\* gen_stmt, If with else: what is emitted between the two branches
IfElseMiddle(x, y) == << IR(Op("Jmp"), y, None), IR(Op("Label"), x, None) >>

\* a panic unwinds every active call and gen_ir itself: nothing is returned
\* (v and code keep the values they had when the panic struck)
Panic ==
    /\ pc' = "panic"
    /\ stack' = <<>>
    /\ UNCHANGED <<input, idx, v, result, code, VARS, REGNO, STACKSIZE,
                   LABEL, ret, out, dpos>>

(***************************************************************************)
(* gen_ir                                                                  *)
(***************************************************************************)
\* the Func arm up to the call of gen_args
GenIrFunc ==
    /\ pc = "loop"
    /\ idx <= Len(input)
    /\ input[idx].ty = "Func"
    /\ code' = <<>>
    /\ VARS' = EmptyVars
    /\ REGNO' = InitRegno
    /\ STACKSIZE' = 0
    /\ stack' = << Frame("gen_args", input[idx].args) >>
    /\ pc' = "args"
    /\ UNCHANGED <<input, idx, v, result, LABEL, ret, out, dpos>>

\* a top-level node that is not a function definition is skipped
GenIrSkipNode ==
    /\ pc = "loop"
    /\ idx <= Len(input)
    /\ input[idx].ty # "Func"
    /\ idx' = idx + 1
    /\ UNCHANGED <<input, pc, v, result, code, VARS, REGNO, STACKSIZE, LABEL,
                   stack, ret, out, dpos>>

\* panic!("parse error.")
GenIrParseError ==
    /\ pc = "loop"
    /\ idx <= Len(input)
    /\ input[idx].ty # "Func"
    /\ Panic

\* gen_args has returned: call gen_stmt on the body
GenIrBody ==
    /\ pc = "args"
    /\ stack = <<>>
    /\ stack' = << Frame("gen_stmt", input[idx].body) >>
    /\ pc' = "body"
    /\ UNCHANGED <<input, idx, v, result, code, VARS, REGNO, STACKSIZE,
                   LABEL, ret, out, dpos>>

\* gen_stmt has returned: v.push(Function::new(..)), next iteration
GenIrPush ==
    /\ pc = "body"
    /\ stack = <<>>
    /\ v' = Append(v, Function(input[idx].name, code, STACKSIZE))
    /\ code' = <<>>
    /\ idx' = idx + 1
    /\ pc' = "loop"
    /\ UNCHANGED <<input, result, VARS, REGNO, STACKSIZE, LABEL, stack, ret,
                   out, dpos>>

\* the loop is over: return v
GenIrReturn ==
    /\ pc = "loop"
    /\ idx > Len(input)
    /\ result' = <<v>>
    /\ pc' = "done"
    /\ UNCHANGED <<input, idx, v, code, VARS, REGNO, STACKSIZE, LABEL, stack,
                   ret, out, dpos>>

(***************************************************************************)
(* gen_args                                                                *)
(***************************************************************************)
GenArgsEmpty ==
    /\ At("gen_args", "start")
    /\ Len(Top.node) = 0
    /\ stack' = Pop
    /\ UNCHANGED <<input, idx, pc, v, result, code, VARS, REGNO, STACKSIZE,
                   LABEL, ret, out, dpos>>

GenArgsSave ==
    /\ At("gen_args", "start")
    /\ Len(Top.node) # 0
    /\ code' = Append(code, IR(Op("SaveArgs"), Len(Top.node), None))
    /\ stack' = SetTop([Top EXCEPT !.at = "loop"])
    /\ UNCHANGED <<input, idx, pc, v, result, VARS, REGNO, STACKSIZE, LABEL,
                   ret, out, dpos>>

\* one iteration of `for node in nodes` on an identifier
GenArgsBind ==
    /\ At("gen_args", "loop")
    /\ Top.i < Len(Top.node)
    /\ Top.node[Top.i + 1].ty = "Ident"
    /\ STACKSIZE' = ArgsStacksize
    /\ VARS' = ArgsVars(Top.node[Top.i + 1].name)
    /\ stack' = SetTop([Top EXCEPT !.i = @ + 1])
    /\ UNCHANGED <<input, idx, pc, v, result, code, REGNO, LABEL, ret, out,
                   dpos>>

\* panic!("bad parameter")
GenArgsBadParam ==
    /\ At("gen_args", "loop")
    /\ Top.i < Len(Top.node)
    /\ Top.node[Top.i + 1].ty # "Ident"
    /\ Panic

GenArgsReturn ==
    /\ At("gen_args", "loop")
    /\ Top.i = Len(Top.node)
    /\ stack' = Pop
    /\ UNCHANGED <<input, idx, pc, v, result, code, VARS, REGNO, STACKSIZE,
                   LABEL, ret, out, dpos>>

(***************************************************************************)
(* gen_stmt                                                                *)
(***************************************************************************)
\* If: call gen_expr on the condition
GenStmtIf ==
    /\ At("gen_stmt", "start")
    /\ Top.node.ty = "If"
    /\ stack' = Enter([Top EXCEPT !.at = "if_cond"],
                      Frame("gen_expr", Top.node.cond))
    /\ UNCHANGED <<input, idx, pc, v, result, code, VARS, REGNO, STACKSIZE,
                   LABEL, ret, out, dpos>>

\* If: allocate x, emit Unless and Kill, call gen_stmt on the then-branch
GenStmtIfThen ==
    /\ At("gen_stmt", "if_cond")
    /\ LABEL' = NextLabel(LABEL)
    /\ code' = code \o << IR(Op("Unless"), ret, LABEL),
                          IR(Op("Kill"), ret, None) >>
    /\ stack' = Enter([Top EXCEPT !.at = "if_then", !.r = ret, !.x = LABEL],
                      Frame("gen_stmt", Top.node.then))
    /\ UNCHANGED <<input, idx, pc, v, result, VARS, REGNO, STACKSIZE, ret,
                   out, dpos>>

\* If with else: allocate y, emit Jmp y and Label x, call gen_stmt on els
GenStmtIfElse ==
    /\ At("gen_stmt", "if_then")
    /\ Top.node.els_may # <<>>
    /\ LABEL' = NextLabel(LABEL)
    /\ code' = code \o IfElseMiddle(Top.x, LABEL)
    /\ stack' = Enter([Top EXCEPT !.at = "if_else", !.y = LABEL],
                      Frame("gen_stmt", Top.node.els_may[1]))
    /\ UNCHANGED <<input, idx, pc, v, result, VARS, REGNO, STACKSIZE, ret,
                   out, dpos>>

\* If with else: emit Label y and return
GenStmtIfElseEnd ==
    /\ At("gen_stmt", "if_else")
    /\ code' = Append(code, IR(Op("Label"), Top.y, None))
    /\ stack' = Pop
    /\ UNCHANGED <<input, idx, pc, v, result, VARS, REGNO, STACKSIZE, LABEL,
                   ret, out, dpos>>

\* If without else: emit Label x and return
GenStmtIfEnd ==
    /\ At("gen_stmt", "if_then")
    /\ Top.node.els_may = <<>>
    /\ code' = Append(code, IR(Op("Label"), Top.x, None))
    /\ stack' = Pop
    /\ UNCHANGED <<input, idx, pc, v, result, VARS, REGNO, STACKSIZE, LABEL,
                   ret, out, dpos>>

GenStmtReturn ==
    /\ At("gen_stmt", "start")
    /\ Top.node.ty = "Return"
    /\ stack' = Enter([Top EXCEPT !.at = "return"],
                      Frame("gen_expr", Top.node.expr))
    /\ UNCHANGED <<input, idx, pc, v, result, code, VARS, REGNO, STACKSIZE,
                   LABEL, ret, out, dpos>>

GenStmtReturnEmit ==
    /\ At("gen_stmt", "return")
    /\ code' = code \o << IR(Op("Return"), ret, None),
                          IR(Op("Kill"), ret, None) >>
    /\ stack' = Pop
    /\ UNCHANGED <<input, idx, pc, v, result, VARS, REGNO, STACKSIZE, LABEL,
                   ret, out, dpos>>

GenStmtExpr ==
    /\ At("gen_stmt", "start")
    /\ Top.node.ty = "ExprStmt"
    /\ stack' = Enter([Top EXCEPT !.at = "expr_stmt"],
                      Frame("gen_expr", Top.node.expr))
    /\ UNCHANGED <<input, idx, pc, v, result, code, VARS, REGNO, STACKSIZE,
                   LABEL, ret, out, dpos>>

GenStmtExprKill ==
    /\ At("gen_stmt", "expr_stmt")
    /\ code' = Append(code, IR(Op("Kill"), ret, None))
    /\ stack' = Pop
    /\ UNCHANGED <<input, idx, pc, v, result, VARS, REGNO, STACKSIZE, LABEL,
                   ret, out, dpos>>

\* CompStmt: one iteration of `for n in stmts`
GenStmtComp ==
    /\ At("gen_stmt", "start")
    /\ Top.node.ty = "CompStmt"
    /\ Top.i < Len(Top.node.stmts)
    /\ stack' = Enter([Top EXCEPT !.i = @ + 1],
                      Frame("gen_stmt", Top.node.stmts[Top.i + 1]))
    /\ UNCHANGED <<input, idx, pc, v, result, code, VARS, REGNO, STACKSIZE,
                   LABEL, ret, out, dpos>>

GenStmtCompEnd ==
    /\ At("gen_stmt", "start")
    /\ Top.node.ty = "CompStmt"
    /\ Top.i = Len(Top.node.stmts)
    /\ stack' = Pop
    /\ UNCHANGED <<input, idx, pc, v, result, code, VARS, REGNO, STACKSIZE,
                   LABEL, ret, out, dpos>>

\* panic!("unknown node: ..")
GenStmtUnknown ==
    /\ At("gen_stmt", "start")
    /\ Top.node.ty \notin {"If", "Return", "ExprStmt", "CompStmt"}
    /\ Panic

(***************************************************************************)
(* gen_expr (gen_lval is part of the actions that call it)                 *)
(***************************************************************************)
GenExprNum ==
    /\ At("gen_expr", "start")
    /\ Top.node.ty = "Num"
    /\ REGNO' = NextRegno(REGNO)
    /\ code' = Append(code, IR(Op("Imm"), REGNO, Top.node.val))
    /\ ret' = REGNO
    /\ stack' = Pop
    /\ UNCHANGED <<input, idx, pc, v, result, VARS, STACKSIZE, LABEL, out,
                   dpos>>

\* Ident: gen_lval, then Load r, r
GenExprIdent ==
    /\ At("gen_expr", "start")
    /\ Top.node.ty = "Ident"
    /\ VARS' = LvalVars(Top.node.name)
    /\ STACKSIZE' = LvalStacksize(Top.node.name)
    /\ REGNO' = NextRegno(REGNO)
    /\ code' = code \o LvalCode(Top.node.name, REGNO)
                    \o << IR(Op("Load"), REGNO, REGNO) >>
    /\ ret' = REGNO
    /\ stack' = Pop
    /\ UNCHANGED <<input, idx, pc, v, result, LABEL, out, dpos>>

\* Call: args_ir = [0; 6], enter the argument loop
GenExprCall ==
    /\ At("gen_expr", "start")
    /\ Top.node.ty = "Call"
    /\ stack' = SetTop([Top EXCEPT !.at = "args", !.i = 0,
                                   !.args_ir = ZeroArgs])
    /\ UNCHANGED <<input, idx, pc, v, result, code, VARS, REGNO, STACKSIZE,
                   LABEL, ret, out, dpos>>

\* Call: gen_expr(code, args[i].clone())
GenExprCallArg ==
    /\ At("gen_expr", "args")
    /\ Top.i < Len(Top.node.args)
    /\ stack' = Enter([Top EXCEPT !.at = "arg_ret"],
                      Frame("gen_expr", Top.node.args[Top.i + 1]))
    /\ UNCHANGED <<input, idx, pc, v, result, code, VARS, REGNO, STACKSIZE,
                   LABEL, ret, out, dpos>>

\* Call: args_ir[i] = <the register returned>
GenExprCallArgRet ==
    /\ At("gen_expr", "arg_ret")
    /\ Top.i < ArgCap
    /\ stack' = SetTop([Top EXCEPT !.at = "args", !.i = @ + 1,
                                   !.args_ir[Top.i + 1] = ret])
    /\ UNCHANGED <<input, idx, pc, v, result, code, VARS, REGNO, STACKSIZE,
                   LABEL, ret, out, dpos>>

\* Call: args_ir[i] with i >= 6 is out of bounds and panics
GenExprCallArgOverflow ==
    /\ At("gen_expr", "arg_ret")
    /\ Top.i >= ArgCap
    /\ Panic

\* Call: allocate r, emit Call and the Kills of the arguments, return r
GenExprCallEmit ==
    /\ At("gen_expr", "args")
    /\ Top.i = Len(Top.node.args)
    /\ REGNO' = NextRegno(REGNO)
    /\ code' = code
                \o << IR(CallOp(Top.node.name, Len(Top.node.args),
                                Top.args_ir), REGNO, None) >>
                \o CallKills(Top.args_ir, Len(Top.node.args))
    /\ ret' = REGNO
    /\ stack' = Pop
    /\ UNCHANGED <<input, idx, pc, v, result, VARS, STACKSIZE, LABEL, out,
                   dpos>>

\* assignment: gen_expr on the right-hand side first
GenExprAssign ==
    /\ At("gen_expr", "start")
    /\ Top.node.ty = "BinOp"
    /\ Top.node.op = "Equal"
    /\ stack' = Enter([Top EXCEPT !.at = "assign_rhs"],
                      Frame("gen_expr", Top.node.rhs))
    /\ UNCHANGED <<input, idx, pc, v, result, code, VARS, REGNO, STACKSIZE,
                   LABEL, ret, out, dpos>>

\* assignment: gen_lval on the left-hand side, Store, Kill rhs, return lhs
GenExprAssignStore ==
    /\ At("gen_expr", "assign_rhs")
    /\ Top.node.lhs.ty = "Ident"
    /\ VARS' = LvalVars(Top.node.lhs.name)
    /\ STACKSIZE' = LvalStacksize(Top.node.lhs.name)
    /\ REGNO' = NextRegno(REGNO)
    /\ code' = code \o LvalCode(Top.node.lhs.name, REGNO)
                    \o << IR(Op("Store"), REGNO, ret),
                          IR(Op("Kill"), ret, None) >>
    /\ ret' = AssignResult(REGNO, ret)
    /\ stack' = Pop
    /\ UNCHANGED <<input, idx, pc, v, result, LABEL, out, dpos>>

\* assignment: gen_lval panics with "not an lvalue"
GenExprAssignNotLval ==
    /\ At("gen_expr", "assign_rhs")
    /\ Top.node.lhs.ty # "Ident"
    /\ Panic

\* other binary operator: gen_expr on the left operand
GenExprBin ==
    /\ At("gen_expr", "start")
    /\ Top.node.ty = "BinOp"
    /\ Top.node.op # "Equal"
    /\ stack' = Enter([Top EXCEPT !.at = "bin_lhs"],
                      Frame("gen_expr", Top.node.lhs))
    /\ UNCHANGED <<input, idx, pc, v, result, code, VARS, REGNO, STACKSIZE,
                   LABEL, ret, out, dpos>>

\* other binary operator: keep lhs, gen_expr on the right operand
GenExprBinRhs ==
    /\ At("gen_expr", "bin_lhs")
    /\ stack' = Enter([Top EXCEPT !.at = "bin_rhs", !.r = ret],
                      Frame("gen_expr", Top.node.rhs))
    /\ UNCHANGED <<input, idx, pc, v, result, code, VARS, REGNO, STACKSIZE,
                   LABEL, ret, out, dpos>>

\* other binary operator: emit the operation and Kill rhs, return lhs
GenExprBinEmit ==
    /\ At("gen_expr", "bin_rhs")
    /\ Top.node.op \in ArithTokens
    /\ code' = code \o << IR(OpFromToken(Top.node.op), Top.r, ret),
                          IR(Op("Kill"), ret, None) >>
    /\ ret' = Top.r
    /\ stack' = Pop
    /\ UNCHANGED <<input, idx, pc, v, result, VARS, REGNO, STACKSIZE, LABEL,
                   out, dpos>>

\* other binary operator: IROp::from(op) panics with "cannot convert"
GenExprBinBadOp ==
    /\ At("gen_expr", "bin_rhs")
    /\ Top.node.op \notin ArithTokens
    /\ Panic

\* unreachable!()
GenExprUnreachable ==
    /\ At("gen_expr", "start")
    /\ Top.node.ty \notin {"Num", "Ident", "Call", "BinOp"}
    /\ Panic

(***************************************************************************)
(* Inputs of gen_ir: the syntax trees the model is run on.                 *)
(***************************************************************************)
Names == {"a", "b"}

SeqsUpTo(S, n) == UNION {[1..k -> S] : k \in 0..n}

Atoms == {Num(n) : n \in 1..MaxLit} \cup {Ident(n) : n \in Names}

\* every expression with one operator over atoms
Expr1 ==
    Atoms
    \cup {BinOp(op, l, r) : op \in ArithTokens, l \in Atoms, r \in Atoms}
    \cup {BinOp("Equal", Ident(n), r) : n \in Names, r \in Atoms}
    \cup {Call("f", args) : args \in SeqsUpTo(Atoms, MaxCallArgs)}

\* operands of the nested expressions
Operands1 ==
    { Num(1), Ident("a"),
      BinOp("Minus", Ident("a"), Num(1)),
      BinOp("Equal", Ident("b"), Num(1)),
      Call("f", <<>>),
      Call("f", <<Ident("a"), Num(1)>>) }

Expr2 ==
    {BinOp("Plus", l, r) : l \in Operands1, r \in Operands1}
    \cup {BinOp("Equal", Ident("a"), r) : r \in Operands1}
    \cup {Call("g", args) : args \in SeqsUpTo(Operands1, MaxCallArgs)}

Operands2 ==
    { BinOp("Plus", Call("f", <<Ident("a"), Num(1)>>),
                    BinOp("Equal", Ident("b"), Num(1))),
      BinOp("Equal", Ident("a"), BinOp("Equal", Ident("b"), Num(1))),
      Call("g", <<Call("f", <<Num(1)>>), BinOp("Minus", Ident("a"), Num(1))>>) }

Expr3 ==
    {BinOp("Mul", l, r) : l \in Operands2, r \in Operands2}
    \cup {BinOp("Equal", Ident("c"), r) : r \in Operands2}
    \cup {Call("h", <<l, r>>) : l \in Operands2, r \in Operands2}

Exprs == Expr1 \cup Expr2 \cup Expr3

Main(body) == Func("main", <<>>, body)

\* one function, one statement, every enumerated expression
ExprPrograms ==
    {<< Main(CompStmt(<<ExprStmt(e)>>)) >> : e \in Exprs}
    \cup {<< Main(CompStmt(<<Return(e)>>)) >> : e \in Exprs}

Leaves == { Return(Num(1)), ExprStmt(BinOp("Equal", Ident("a"), Num(1))) }
Conds == { Ident("a"), BinOp("Plus", Ident("a"), Num(1)) }
OptStmt(S) == {<<>>} \cup {<<s>> : s \in S}

If1 == {If(c, t, e) : c \in Conds, t \in Leaves, e \in OptStmt(Leaves)}
Stmt1 == Leaves \cup If1
If2 == {If(Ident("a"), t, e) : t \in Stmt1, e \in OptStmt(Stmt1)}
If3 ==
    { If(Ident("a"),
         CompStmt(<<s, If(Ident("b"), Return(Num(1)), e)>>),
         <<CompStmt(<<If(Num(1), s, e)>>)>>)
        : s \in Leaves, e \in OptStmt(Leaves) }

BlockStmts ==
    Leaves
    \cup { If(Ident("a"), Return(Num(1)), <<>>),
           If(Ident("b"), Return(Num(1)), <<Return(Num(2))>>) }

\* one function whose body nests if and if/else
IfPrograms ==
    {<< Main(CompStmt(b)) >> : b \in SeqsUpTo(BlockStmts, MaxStmts)}
    \cup {<< Main(CompStmt(<<s>>)) >> : s \in If2 \cup If3}
    \cup {<< Main(s) >> : s \in If1}

SmallFuncs ==
    { Func("f", <<>>, CompStmt(<<Return(Num(1))>>)),
      Func("g", <<Ident("a")>>,
           CompStmt(<<If(Ident("a"), Return(Num(1)), <<>>)>>)),
      Func("h", <<>>,
           CompStmt(<<If(Ident("a"), Return(Num(1)), <<Return(Num(2))>>)>>)),
      Func("k", <<Ident("a"), Ident("b")>>,
           CompStmt(<<If(Ident("a"),
                         If(Ident("b"), Return(Num(1)), <<Return(Num(2))>>),
                         <<>>),
                      Return(BinOp("Plus", Ident("a"), Ident("b")))>>)) }

\* several functions in one program
MultiPrograms ==
    UNION {[1..k -> SmallFuncs] : k \in 2..MaxFuncs}

LocalStmts ==
    {ExprStmt(BinOp("Equal", Ident(n), Num(1))) : n \in Names \cup {"c"}}
    \cup {Return(Ident(n)) : n \in {"a", "c"}}

\* parameters (names may repeat) and locals
ArgPrograms ==
    { << Func("f", [k \in DOMAIN ps |-> Ident(ps[k])], CompStmt(b)) >>
        : ps \in SeqsUpTo(Names, MaxParams),
          b \in {<<>>} \cup {<<s>> : s \in LocalStmts}
                \cup {<<s, t>> : s \in LocalStmts, t \in LocalStmts} }

F0 == Func("f", <<>>, CompStmt(<<Return(Num(1))>>))

\* trees on which the pass panics
BadPrograms ==
    { << ExprStmt(Num(1)) >>,
      << F0, Num(1) >>,
      << Num(1), F0 >>,
      << F0, F0, CompStmt(<<>>) >>,
      << Func("f", <<Num(1)>>, CompStmt(<<>>)) >>,
      << F0, Func("g", <<Ident("a"), Num(1)>>, CompStmt(<<>>)) >>,
      << Main(CompStmt(<<Num(1)>>)) >>,
      << Main(CompStmt(<<Return(Return(Num(1)))>>)) >>,
      << Main(CompStmt(<<ExprStmt(BinOp("Equal", Num(1), Num(2)))>>)) >>,
      << Main(CompStmt(<<ExprStmt(BinOp("LeftParen", Num(1), Num(2)))>>)) >>,
      << Main(CompStmt(<<Return(Call("f", [k \in 1..(ArgCap + 1) |-> Num(k)]))>>)) >> }

\* the example scenarios, and a call that fills the argument array
Scenario1 == << Main(CompStmt(<<Return(BinOp("Plus", Num(1), Num(2)))>>)) >>
Scenario2 ==
    << Main(CompStmt(<< ExprStmt(BinOp("Equal", Ident("x"), Num(3))),
                        Return(Ident("x")) >>)) >>
Scenario3 ==
    << Main(CompStmt(<<If(Ident("a"), Return(Num(1)), <<Return(Num(2))>>)>>)) >>
Scenario4 ==
    << Func("foo", <<Ident("a"), Ident("b")>>,
            CompStmt(<<Return(BinOp("Plus", Ident("a"), Ident("b")))>>)) >>
FullCall ==
    << Main(CompStmt(<<Return(Call("f", [k \in 1..ArgCap |-> Num(k)]))>>)) >>

ScenarioPrograms ==
    { <<>>, Scenario1, Scenario2, Scenario3, Scenario4, FullCall }

Programs ==
    ExprPrograms \cup IfPrograms \cup MultiPrograms \cup ArgPrograms
    \cup BadPrograms \cup ScenarioPrograms

(***************************************************************************)
(* The lowering pass as a state machine.                                   *)
(***************************************************************************)
Init ==
    /\ input \in Programs
    /\ idx = 1
    /\ pc = "loop"
    /\ v = <<>>
    /\ result = <<>>
    /\ code = <<>>
    /\ VARS = EmptyVars
    /\ REGNO = InitRegno
    /\ STACKSIZE = 0
    /\ LABEL = InitLabel
    /\ stack = <<>>
    /\ ret = None
    /\ out = <<>>
    /\ dpos = 0

Next ==
    \/ GenIrFunc \/ GenIrParseError \/ GenIrBody \/ GenIrPush \/ GenIrReturn
    \/ GenArgsEmpty \/ GenArgsSave \/ GenArgsBind \/ GenArgsBadParam
    \/ GenArgsReturn
    \/ GenStmtIf \/ GenStmtIfThen \/ GenStmtIfElse \/ GenStmtIfElseEnd
    \/ GenStmtIfEnd \/ GenStmtReturn \/ GenStmtReturnEmit \/ GenStmtExpr
    \/ GenStmtExprKill \/ GenStmtComp \/ GenStmtCompEnd \/ GenStmtUnknown
    \/ GenExprNum \/ GenExprIdent \/ GenExprCall \/ GenExprCallArg
    \/ GenExprCallArgRet \/ GenExprCallArgOverflow \/ GenExprCallEmit
    \/ GenExprAssign \/ GenExprAssignStore \/ GenExprAssignNotLval
    \/ GenExprBin \/ GenExprBinRhs \/ GenExprBinEmit \/ GenExprBinBadOp
    \/ GenExprUnreachable

Spec == Init /\ [][Next]_vars

(***************************************************************************)
(* Reading the output.                                                     *)
(***************************************************************************)
\* the instruction lists produced so far: the finished functions, then the
\* list of the function being lowered
Irs == [k \in 1..(Len(v) + 1) |-> IF k <= Len(v) THEN v[k].ir ELSE code]

Finished == 1..Len(v)

HasTag(ins, tags) == ins.op.tag \in tags

\* the instructions that give a register its first value
IsDef(ins) == HasTag(ins, {"Imm", "Mov", "Call"})
DefSeq(ir) == SelectSeq(ir, IsDef)
Allocated(ir) == {ir[i].lhs : i \in {j \in DOMAIN ir : IsDef(ir[j])}}

Count(ir, tag) == Cardinality({i \in DOMAIN ir : ir[i].op.tag = tag})

\* the registers an instruction names, by its operand shape in IRINFO
Mentions(ins) ==
    LET ty == get_irinfo(ins).ty
    IN  CASE ty = "RegReg" -> {ins.lhs, ins.rhs}
          [] ty \in {"RegImm", "Reg", "RegLabel"} -> {ins.lhs}
          [] ty = "Call" ->
                {ins.lhs} \cup {ins.op.args[k] : k \in 1..ins.op.nargs}
          [] OTHER -> {}

MentionsAt(ir) == [j \in DOMAIN ir |-> Mentions(ir[j])]

KillsOf(ir, r) == {i \in DOMAIN ir : HasTag(ir[i], {"Kill"}) /\ ir[i].lhs = r}
LabelsOf(ir, l) == {i \in DOMAIN ir : HasTag(ir[i], {"Label"}) /\ ir[i].lhs = l}

\* the number of if statements, and of those with an else, in a statement
RECURSIVE NumIf(_), NumIfElse(_), NumIfSeq(_), NumIfElseSeq(_)
NumIf(n) ==
    CASE n.ty = "If" ->
            1 + NumIf(n.then) + NumIfSeq(n.els_may)
      [] n.ty = "CompStmt" -> NumIfSeq(n.stmts)
      [] OTHER -> 0
NumIfSeq(ns) ==
    IF ns = <<>> THEN 0 ELSE NumIf(Head(ns)) + NumIfSeq(Tail(ns))
NumIfElse(n) ==
    CASE n.ty = "If" ->
            (IF n.els_may = <<>> THEN 0 ELSE 1)
            + NumIfElse(n.then) + NumIfElseSeq(n.els_may)
      [] n.ty = "CompStmt" -> NumIfElseSeq(n.stmts)
      [] OTHER -> 0
NumIfElseSeq(ns) ==
    IF ns = <<>> THEN 0 ELSE NumIfElse(Head(ns)) + NumIfElseSeq(Tail(ns))

(***************************************************************************)
(* Claims.                                                                 *)
(***************************************************************************)

\* C1: in every instruction list, every Kill names a register that an
\* earlier instruction of the same list (Imm, Mov or Call) has written.
C1_KillAfterDef ==
    \A k \in DOMAIN Irs :
        \A i \in DOMAIN Irs[k] :
            HasTag(Irs[k][i], {"Kill"}) =>
                \E j \in 1..(i - 1) :
                    IsDef(Irs[k][j]) /\ Irs[k][j].lhs = Irs[k][i].lhs

\* C1 witness: gen_ir has returned a function in which the result of a call
\* with two arguments, an immediate and an address register are all killed.
C1_Witness ==
    /\ pc = "done"
    /\ \E k \in Finished :
        LET ir == v[k].ir
            killed(tag) ==
                \E i \in DOMAIN ir, j \in DOMAIN ir :
                    /\ j < i
                    /\ HasTag(ir[i], {"Kill"})
                    /\ HasTag(ir[j], {tag})
                    /\ ir[j].lhs = ir[i].lhs
                    /\ (tag = "Call" => ir[j].op.nargs = 2)
        IN  killed("Call") /\ killed("Imm") /\ killed("Mov")

\* C2: label ids are unique in the whole output: every label in use has been
\* allocated (is below the counter), no label id is defined by two Label
\* instructions anywhere, between functions every allocated id is defined by
\* exactly one Label instruction, and in every finished function every Unless
\* and Jmp targets a label that a later Label instruction of that function
\* defines.
C2_Labels ==
    /\ \A k \in DOMAIN Irs : \A i \in DOMAIN Irs[k] :
        /\ HasTag(Irs[k][i], {"Label", "Jmp"}) =>
                Irs[k][i].lhs \in 0..(LABEL - 1)
        /\ HasTag(Irs[k][i], {"Unless"}) =>
                Irs[k][i].rhs \in 0..(LABEL - 1)
    /\ \A l \in 0..(LABEL - 1) :
        /\ \A k \in DOMAIN Irs : Cardinality(LabelsOf(Irs[k], l)) <= 1
        /\ Cardinality({k \in DOMAIN Irs : LabelsOf(Irs[k], l) # {}}) <= 1
    /\ pc \in {"loop", "done"} =>
        \A l \in 0..(LABEL - 1) :
            \E k \in Finished : Cardinality(LabelsOf(v[k].ir, l)) = 1
    /\ \A k \in Finished : \A i \in DOMAIN v[k].ir :
        /\ HasTag(v[k].ir[i], {"Unless"}) =>
                \E j \in LabelsOf(v[k].ir, v[k].ir[i].rhs) : j > i
        /\ HasTag(v[k].ir[i], {"Jmp"}) =>
                \E j \in LabelsOf(v[k].ir, v[k].ir[i].lhs) : j > i

\* C2 witness: gen_ir has returned two functions that both define labels,
\* the second one with an if/else.
C2_Witness ==
    /\ pc = "done"
    /\ Len(v) >= 2
    /\ Count(v[1].ir, "Label") >= 1
    /\ Count(v[2].ir, "Jmp") >= 1
    /\ Count(v[2].ir, "Label") >= 2

\* C3: in every instruction list the instructions that first define a
\* register define r1, r2, r3, ... in that order, and while a function is
\* being lowered REGNO is one more than the number of registers defined.
C3_RegisterOrder ==
    /\ \A k \in DOMAIN Irs :
        \A n \in 1..Len(DefSeq(Irs[k])) : DefSeq(Irs[k])[n].lhs = n
    /\ pc \in {"args", "body"} => REGNO = Len(DefSeq(code)) + 1

\* C3 witness: two functions have been lowered in one run and each defines
\* several registers, one of them by a call.
C3_Witness ==
    /\ pc = "done"
    /\ Len(v) >= 2
    /\ Len(DefSeq(v[1].ir)) >= 2
    /\ Len(DefSeq(v[2].ir)) >= 4

\* a step inside one function's lowering keeps every offset already assigned
OffsetsKept ==
    (pc \in {"args", "body"}) =>
        \A n \in DOMAIN VARS : n \in DOMAIN VARS' /\ VARS'[n] = VARS[n]

\* C4: within one function's lowering, no step changes the offset of a name
\* that already has one.
C4_OffsetFixed == [][OffsetsKept]_vars

\* the code of `x = 3; return x;` as the pass emits it
Scenario2Code ==
    << IR(Op("Imm"), 1, 3),
       IR(Op("Mov"), 2, 0), IR(Op("SubImm"), 2, 0),
       IR(Op("Store"), 2, 1), IR(Op("Kill"), 1, None),
       IR(Op("Kill"), 2, None),
       IR(Op("Mov"), 3, 0), IR(Op("SubImm"), 3, 0),
       IR(Op("Load"), 3, 3),
       IR(Op("Return"), 3, None), IR(Op("Kill"), 3, None) >>

\* C5 (amended): the parameterless function with body `x = 3; return x;`
\* is lowered to Imm r1,3; Mov r2,0; SubImm r2,0; Store r2,r1; Kill r1;
\* Kill r2; Mov r3,0; SubImm r3,0; Load r3,r3; Return r3; Kill r3 with
\* stack size 8.
C5_Scenario2 ==
    (pc = "done" /\ input = Scenario2) =>
        result = << << Function("main", Scenario2Code, 8) >> >>

\* C5 witness: gen_ir has returned on `x = 3; return x;`.
C5_Witness == pc = "done" /\ input = Scenario2 /\ Len(result[1][1].ir) > 0

ClaimedAssign ==
    << IR(Op("Mov"), 1, 0), IR(Op("SubImm"), 1, 0), IR(Op("Imm"), 2, 3),
       IR(Op("Store"), 1, 2), IR(Op("Kill"), 2, None) >>
ClaimedReturn ==
    << IR(Op("Mov"), 3, 0), IR(Op("SubImm"), 3, 0), IR(Op("Load"), 3, 3),
       IR(Op("Return"), 3, None), IR(Op("Kill"), 3, None) >>
OccursAt(ir, part, p) ==
    /\ p + Len(part) - 1 <= Len(ir)
    /\ SubSeq(ir, p, p + Len(part) - 1) = part

\* C5 (as claimed): the assignment is lowered to Mov r1,0; SubImm r1,0;
\* Imm r2,3; Store r1,r2; Kill r2, the return to Mov r3,0; SubImm r3,0;
\* Load r3,r3; Return r3; Kill r3 after it, and the stack size is 8.
C5_AsClaimed ==
    (pc = "done" /\ input = Scenario2) =>
        LET f == result[1][1]
        IN  /\ f.stacksize = 8
            /\ \E p \in DOMAIN f.ir, q \in DOMAIN f.ir :
                /\ OccursAt(f.ir, ClaimedAssign, p)
                /\ q >= p + Len(ClaimedAssign)
                /\ OccursAt(f.ir, ClaimedReturn, q)

\* the shape of the code of one finished function around its branches
IfShape(ir) ==
    /\ \A i \in DOMAIN ir :
        HasTag(ir[i], {"Unless"}) =>
            /\ i < Len(ir)
            /\ ir[i + 1] = IR(Op("Kill"), ir[i].lhs, None)
            /\ Cardinality(LabelsOf(ir, ir[i].rhs)) = 1
            /\ \A j \in LabelsOf(ir, ir[i].rhs) : j > i + 1
    /\ \A j \in DOMAIN ir :
        HasTag(ir[j], {"Jmp"}) =>
            /\ j < Len(ir)
            /\ HasTag(ir[j + 1], {"Label"})
            /\ ir[j + 1].lhs < ir[j].lhs
            /\ \E i \in 1..(j - 1) :
                HasTag(ir[i], {"Unless"}) /\ ir[i].rhs = ir[j + 1].lhs
            /\ Cardinality(LabelsOf(ir, ir[j].lhs)) = 1
            /\ \A m \in LabelsOf(ir, ir[j].lhs) : m > j + 1
    /\ \A m \in DOMAIN ir :
        HasTag(ir[m], {"Label"}) =>
            \E i \in 1..(m - 1) :
                /\ HasTag(ir[i], {"Unless", "Jmp"})
                /\ (IF HasTag(ir[i], {"Jmp"}) THEN ir[i].lhs ELSE ir[i].rhs)
                        = ir[m].lhs

RECURSIVE TotalLabels(_)
TotalLabels(k) ==
    IF k = 0 THEN 0 ELSE Count(v[k].ir, "Label") + TotalLabels(k - 1)

\* C6: every finished function has one Unless per if statement of its body,
\* one Jmp per if statement with an else, and one Label per Unless and per
\* Jmp: Unless r,x is followed by Kill r and by exactly one later Label x;
\* Jmp y is followed at once by the Label x of an earlier Unless and later by
\* exactly one Label y; and between functions the label counter equals the
\* number of Label instructions emitted, so an if without else has allocated
\* one label and an if/else two.
C6_IfLabels ==
    /\ \A k \in Finished :
        /\ Count(v[k].ir, "Unless") = NumIf(input[k].body)
        /\ Count(v[k].ir, "Jmp") = NumIfElse(input[k].body)
        /\ Count(v[k].ir, "Label")
                = NumIf(input[k].body) + NumIfElse(input[k].body)
        /\ IfShape(v[k].ir)
    /\ pc \in {"loop", "done"} => LABEL = TotalLabels(Len(v))

\* C6 witness: gen_ir has returned a function whose body nests an if without
\* else and an if/else inside the branches of an if/else.
C6_Witness ==
    /\ pc = "done"
    /\ \E k \in Finished :
        /\ NumIf(input[k].body) >= 3
        /\ NumIfElse(input[k].body) >= 1
        /\ NumIfElse(input[k].body) < NumIf(input[k].body)
        /\ Count(v[k].ir, "Label") >= 4

\* C7: on an input with a top-level node that is not a function definition
\* gen_ir never returns and yields no functions, a panic yields no
\* functions, and when gen_ir returns it returns one Function per top-level
\* node, named as the nodes are, in input order.
C7_TopLevel ==
    /\ (\E k \in DOMAIN input : input[k].ty # "Func") =>
            (result = <<>> /\ pc # "done")
    /\ pc = "panic" => result = <<>>
    /\ pc = "done" =>
        /\ Len(result) = 1
        /\ Len(result[1]) = Len(input)
        /\ \A k \in DOMAIN input :
            input[k].ty = "Func" /\ result[1][k].name = input[k].name

\* C7 witness: gen_ir has panicked on a top-level node that is not a function
\* definition after it had lowered a function definition before that node.
C7_Witness ==
    /\ pc = "panic"
    /\ Len(v) >= 1
    /\ idx <= Len(input)
    /\ input[idx].ty # "Func"
    /\ input[1].ty = "Func"

\* C9: while a function is lowered, distinct names have distinct offsets and
\* every offset is below the stack size.
C9_DistinctSlots ==
    pc \in {"args", "body"} =>
        /\ \A n \in DOMAIN VARS, m \in DOMAIN VARS :
            n # m => VARS[n] # VARS[m]
        /\ \A n \in DOMAIN VARS : VARS[n] < STACKSIZE

\* C9, its first half alone: distinct names have distinct offsets.
C9_NoSharedSlot ==
    pc \in {"args", "body"} =>
        \A n \in DOMAIN VARS, m \in DOMAIN VARS : n # m => VARS[n] # VARS[m]

\* C10: in every instruction list no allocated register is killed twice and
\* no instruction after its Kill names it, and in every finished function
\* every allocated register is killed exactly once.
C10_KillOnce ==
    \A k \in DOMAIN Irs :
        \A r \in Allocated(Irs[k]) :
            /\ Cardinality(KillsOf(Irs[k], r)) <= 1
            /\ k \in Finished => Cardinality(KillsOf(Irs[k], r)) = 1
            /\ \A i \in KillsOf(Irs[k], r) :
                \A j \in (i + 1)..Len(Irs[k]) : r \notin MentionsAt(Irs[k])[j]

\* C10 witness: gen_ir has returned a function with three calls, one of them
\* with two arguments that are themselves calls or assignments, and a store.
C10_Witness ==
    /\ pc = "done"
    /\ \E k \in Finished :
        /\ Count(v[k].ir, "Call") >= 3
        /\ Count(v[k].ir, "Store") >= 2
        /\ Count(v[k].ir, "Kill") = Cardinality(Allocated(v[k].ir))

(***************************************************************************)
(* Display for IR, and dump_ir.                                            *)
(***************************************************************************)
Digits == <<"0", "1", "2", "3", "4", "5", "6", "7", "8", "9">>

\* the decimal text of an unsigned integer, as {} formats it
RECURSIVE Dec(_)
Dec(n) ==
    IF n < 10 THEN Digits[n + 1] ELSE Dec(n \div 10) \o Digits[(n % 10) + 1]

\* the ", r<arg>" pieces of the first n argument registers
RECURSIVE ArgsText(_, _)
ArgsText(args, n) ==
    IF n = 0 THEN "" ELSE ArgsText(args, n - 1) \o ", r" \o Dec(args[n])

\* fmt evaluates self.lhs.unwrap() first, and self.rhs.unwrap() in the arms
\* that print a second operand
FmtPanics(ir) ==
    \/ ir.lhs = None
    \/ /\ get_irinfo(ir).ty \in {"RegReg", "RegImm", "RegLabel"}
       /\ ir.rhs = None

\* the text fmt writes for an instruction on which it does not panic
Fmt(ir) ==
    LET info == get_irinfo(ir)
        lhs == ir.lhs
    IN  CASE info.ty = "Label" -> ".L" \o Dec(lhs) \o "=>\n"
          [] info.ty = "Imm" -> info.name \o " " \o Dec(lhs) \o "\n"
          [] info.ty = "Reg" -> info.name \o " r" \o Dec(lhs) \o "\n"
          [] info.ty = "RegReg" ->
                info.name \o " r" \o Dec(lhs) \o ", r" \o Dec(ir.rhs) \o "\n"
          [] info.ty = "RegImm" ->
                info.name \o " r" \o Dec(lhs) \o ", " \o Dec(ir.rhs) \o "\n"
          [] info.ty = "RegLabel" ->
                info.name \o " r" \o Dec(lhs) \o ", .L" \o Dec(ir.rhs) \o "\n"
          [] info.ty = "Call" ->
                ", r" \o Dec(lhs) \o " = " \o ir.op.name \o "("
                    \o ArgsText(ir.op.args, ir.op.nargs)
          [] info.ty = "Noarg" -> info.name \o "\n"

\* dump_ir: print!("{}(): \n", f.name) for the next function
DumpFn ==
    /\ pc = "dump"
    /\ idx <= Len(v)
    /\ out' = Append(out, v[idx].name \o "(): \n")
    /\ dpos' = 1
    /\ pc' = "dump_body"
    /\ UNCHANGED <<input, idx, v, result, code, VARS, REGNO, STACKSIZE,
                   LABEL, stack, ret>>

\* dump_ir: print!("  {}", ir) for the next instruction
DumpIr ==
    /\ pc = "dump_body"
    /\ dpos <= Len(v[idx].ir)
    /\ ~FmtPanics(v[idx].ir[dpos])
    /\ out' = Append(out, "  " \o Fmt(v[idx].ir[dpos]))
    /\ dpos' = dpos + 1
    /\ UNCHANGED <<input, idx, pc, v, result, code, VARS, REGNO, STACKSIZE,
                   LABEL, stack, ret>>

\* dump_ir: unwrap() on a missing operand panics
DumpIrPanic ==
    /\ pc = "dump_body"
    /\ dpos <= Len(v[idx].ir)
    /\ FmtPanics(v[idx].ir[dpos])
    /\ pc' = "panic"
    /\ UNCHANGED <<input, idx, v, result, code, VARS, REGNO, STACKSIZE,
                   LABEL, stack, ret, out, dpos>>

\* dump_ir: the instructions of this function are printed
DumpFnEnd ==
    /\ pc = "dump_body"
    /\ dpos > Len(v[idx].ir)
    /\ idx' = idx + 1
    /\ pc' = "dump"
    /\ UNCHANGED <<input, v, result, code, VARS, REGNO, STACKSIZE, LABEL,
                   stack, ret, out, dpos>>

DumpReturn ==
    /\ pc = "dump"
    /\ idx > Len(v)
    /\ pc' = "dumped"
    /\ UNCHANGED <<input, idx, v, result, code, VARS, REGNO, STACKSIZE,
                   LABEL, stack, ret, out, dpos>>

OpTags ==
    {"Add", "Sub", "Mul", "Div", "Imm", "SubImm", "Mov", "Label", "Jmp",
     "Unless", "Return", "Load", "Store", "Kill", "SaveArgs", "Nop"}

\* operand values: the small ones and one of two digits
OperandValues == (0..MaxOperand) \cup {10}

ArgArray(as) == [k \in 1..ArgCap |-> IF k <= Len(as) THEN as[k] ELSE 0]

\* the instructions that are rendered: every opcode with every operand
RenderInstrs ==
    {IR(Op(t), l, r) : t \in OpTags, l \in OperandValues,
                       r \in OperandValues \cup {None}}
    \cup {IR(Op(t), None, None) : t \in {"Nop", "Label"}}
    \cup {IR(CallOp("f", Len(as), ArgArray(as)), l, None)
            : as \in SeqsUpTo(0..MaxOperand, MaxCallArgs),
              l \in OperandValues}

\* dump_ir on one function that holds two instructions
InitRender ==
    /\ v \in {<< Function("f", <<i1, i2>>, 0) >>
                : i1 \in RenderInstrs, i2 \in RenderInstrs}
    /\ input = <<>>
    /\ idx = 1
    /\ pc = "dump"
    /\ result = <<>>
    /\ code = <<>>
    /\ VARS = EmptyVars
    /\ REGNO = InitRegno
    /\ STACKSIZE = 0
    /\ LABEL = InitLabel
    /\ stack = <<>>
    /\ ret = None
    /\ out = <<>>
    /\ dpos = 0

NextRender == DumpFn \/ DumpIr \/ DumpIrPanic \/ DumpFnEnd \/ DumpReturn

SpecRender == InitRender /\ [][NextRender]_vars

\* the text printed for the p-th instruction of the function dumped
Printed(p) == out[p + 1]
PrintedInstrs == 1..(Len(out) - 1)

\* C8: two instructions that render to the same text have the same opcode.
C8_RenderInjective ==
    \A p \in PrintedInstrs, q \in PrintedInstrs :
        Printed(p) = Printed(q) => v[1].ir[p].op.tag = v[1].ir[q].op.tag

\* C8, apart from Label and Jmp: two instructions that render to the same
\* text have the same opcode, or one is a Label and the other a Jmp.
C8_ExceptLabelJmp ==
    \A p \in PrintedInstrs, q \in PrintedInstrs :
        Printed(p) = Printed(q) =>
            \/ v[1].ir[p].op.tag = v[1].ir[q].op.tag
            \/ {v[1].ir[p].op.tag, v[1].ir[q].op.tag} = {"Label", "Jmp"}

====
